---- MODULE Spec2Model ----
(***************************************************************************)
(* Agora token server: the three token handlers of src/index.js            *)
(* (generateRTCToken, generateRTMToken, generateRTEToken) and the          *)
(* GET /rtcToken handler of the second server file (src/unnamed/part_000). *)
(*                                                                         *)
(* Node runs each handler to completion on its event loop and the handlers *)
(* are synchronous, so one request is one atomic step.  The external       *)
(* token builders (the Signer) are a black box: the model records every    *)
(* call with its arguments and returns an opaque value built from them.    *)
(***************************************************************************)
EXTENDS Integers, Sequences, FiniteSets, TLC

VARIABLES
  env,              \* process.env as loaded by dotenv.config()
  APP_ID,           \* const APP_ID = process.env.APP_ID
  APP_CERTIFICATE,  \* const APP_CERTIFICATE = process.env.APP_CERTIFICATE
  handler,          \* the route handler that served the last request
  req,              \* the last request (params and query)
  now,              \* Date.now() as read by the last request, in milliseconds
  raiseAt,          \* which Signer call of the last request raised (0: none)
  resp,             \* the response the last request produced
  calls,            \* the Signer calls the last request made, in order
  faulted           \* whether a Signer call of an earlier request raised

vars == <<env, APP_ID, APP_CERTIFICATE, handler, req, now, raiseAt, resp, calls,
          faulted>>

-----------------------------------------------------------------------------
(* JavaScript values *)

\* The value undefined (an absent route parameter, query field or env entry).
\* Request strings are TLA+ strings; no request string equals this marker.
Undefined == "<undefined>"

\* !v for a value that is undefined or a string
Falsy(v) == v = Undefined \/ v = ""

\* JavaScript numbers are IEEE-754 doubles.  Those the handlers can produce
\* are NaN, the infinities and integer-valued doubles; an integer-valued double
\* is kept as its sign and its exact magnitude, a natural number written in
\* limbs of LimbBits bits, least significant first, without leading zero limbs
\* (<<>> is zero; zero carries no sign, as 0 === -0).
LimbBits == 10
Limb == 2 ^ LimbBits
SignificandBits == 53
MaxBinaryDigits == 1024

NaN == [type |-> "NaN"]
Infinity(neg) == [type |-> "Infinity", neg |-> neg]
IsNaN(x) == x.type = "NaN"
IsFinite(x) == x.type = "number"

\* the limbs of a natural number n
RECURSIVE BigOf(_)
BigOf(n) == IF n = 0 THEN <<>> ELSE <<n % Limb>> \o BigOf(n \div Limb)

\* x without leading zero limbs
BigNorm(x) ==
  LET set == {i \in 1..Len(x) : x[i] # 0}
  IN IF set = {} THEN <<>>
     ELSE SubSeq(x, 1, CHOOSE i \in set : \A h \in set : h <= i)

\* limb i of x, zero beyond its length
LimbAt(x, i) == IF i \in 1..Len(x) THEN x[i] ELSE 0

\* x + y + c for a carry c of 0 or 1.  The carry into limb i is worked out
\* from the limb sums below it: some limb overflows and every limb between
\* passes the carry on.
BigAdd(x, y, c) ==
  LET n == (IF Len(x) < Len(y) THEN Len(y) ELSE Len(x)) + 1
      sum == [i \in 1..n |->
                LimbAt(x, i) + LimbAt(y, i) + (IF i = 1 THEN c ELSE 0)]
      carry(i) == IF \E j \in 1..(i - 1) :
                       /\ sum[j] >= Limb
                       /\ \A h \in (j + 1)..(i - 1) : sum[h] = Limb - 1
                    THEN 1 ELSE 0
  IN BigNorm([i \in 1..n |-> (sum[i] + carry(i)) % Limb])

\* x - y for x >= y.  The borrow into limb i: some limb below falls short and
\* every limb between is level.
BigSub(x, y) ==
  LET diff == [i \in 1..Len(x) |-> x[i] - LimbAt(y, i)]
      borrow(i) == IF \E j \in 1..(i - 1) :
                        /\ diff[j] < 0
                        /\ \A h \in (j + 1)..(i - 1) : diff[h] = 0
                     THEN 1 ELSE 0
  IN BigNorm([i \in 1..Len(x) |-> (diff[i] - borrow(i) + Limb) % Limb])

\* the sum of x[i] * y[k + 1 - i] for i in lo..hi, by halves
RECURSIVE ColumnSum(_, _, _, _, _)
ColumnSum(x, y, k, lo, hi) ==
  IF lo > hi THEN 0
  ELSE IF lo = hi THEN x[lo] * y[k + 1 - lo]
  ELSE LET mid == (lo + hi) \div 2
       IN ColumnSum(x, y, k, lo, mid) + ColumnSum(x, y, k, mid + 1, hi)

\* x * y: column k collects the limb products of weight Limb^(k-1); a column
\* is below Limb^3 and is spread over three limbs
BigMul(x, y) ==
  IF x = <<>> \/ y = <<>> THEN <<>> ELSE
  LET n == Len(x) + Len(y)
      column == SubSeq([k \in 1..n |->
                  ColumnSum(x, y, k,
                            IF k + 1 - Len(y) > 1 THEN k + 1 - Len(y) ELSE 1,
                            IF k < Len(x) THEN k ELSE Len(x))], 1, n)
      low  == [k \in 1..n |-> column[k] % Limb]
      mid  == [k \in 1..(n + 1) |->
                 IF k <= 1 THEN 0 ELSE (column[k - 1] \div Limb) % Limb]
      high == [k \in 1..(n + 2) |->
                 IF k <= 2 THEN 0 ELSE column[k - 2] \div (Limb * Limb)]
  IN BigAdd(BigAdd(low, mid, 0), high, 0)

\* x < y
BigLess(x, y) ==
  \/ Len(x) < Len(y)
  \/ /\ Len(x) = Len(y)
     /\ \E i \in 1..Len(x) :
          /\ x[i] < y[i]
          /\ \A h \in (i + 1)..Len(x) : x[h] = y[h]

\* the number of binary digits of a limb and of a natural number
RECURSIVE LimbLength(_)
LimbLength(v) == IF v = 0 THEN 0 ELSE 1 + LimbLength(v \div 2)
BitLength(x) ==
  IF x = <<>> THEN 0 ELSE LimbBits * (Len(x) - 1) + LimbLength(x[Len(x)])

\* binary digit k of x (digit 0 is the least significant)
Bit(x, k) == (x[k \div LimbBits + 1] \div 2 ^ (k % LimbBits)) % 2

\* 2^k, and x with its binary digits below k cleared
BigPow2(k) ==
  [i \in 1..(k \div LimbBits + 1) |->
     IF i = k \div LimbBits + 1 THEN 2 ^ (k % LimbBits) ELSE 0]
ClearBelow(x, k) ==
  [i \in 1..Len(x) |->
     IF i < k \div LimbBits + 1 THEN 0
     ELSE IF i = k \div LimbBits + 1
       THEN (x[i] \div 2 ^ (k % LimbBits)) * 2 ^ (k % LimbBits)
       ELSE x[i]]

\* the double nearest to the integer of sign neg and magnitude x: the
\* magnitude is kept when it fits the significand, otherwise rounded to
\* SignificandBits binary digits, ties to the even significand; a result of
\* more than MaxBinaryDigits binary digits is an infinity
ToDouble(neg, x) ==
  LET len == BitLength(x)
      drop == len - SignificandBits
      up == /\ Bit(x, drop - 1) = 1
            /\ \/ Bit(x, drop) = 1
               \/ \E k \in 0..(drop - 2) : Bit(x, k) = 1
      cut == ClearBelow(x, drop)
      mag == IF drop <= 0 THEN x
             ELSE IF up THEN BigAdd(cut, BigPow2(drop), 0) ELSE cut
  IN IF BitLength(mag) > MaxBinaryDigits THEN Infinity(neg)
     ELSE [type |-> "number", neg |-> neg /\ mag # <<>>, mag |-> mag]

\* the double of an integer n
Num(n) == ToDouble(n < 0, BigOf(IF n < 0 THEN 0 - n ELSE n))

\* a + b on doubles: the exact sum, rounded
JsAdd(a, b) ==
  IF IsNaN(a) \/ IsNaN(b) THEN NaN
  ELSE IF ~IsFinite(a) /\ ~IsFinite(b)
    THEN IF a.neg = b.neg THEN a ELSE NaN
  ELSE IF ~IsFinite(a) THEN a
  ELSE IF ~IsFinite(b) THEN b
  ELSE IF a.neg = b.neg THEN ToDouble(a.neg, BigAdd(a.mag, b.mag, 0))
  ELSE IF BigLess(a.mag, b.mag) THEN ToDouble(b.neg, BigSub(b.mag, a.mag))
  ELSE ToDouble(a.neg, BigSub(a.mag, b.mag))

\* a > b on doubles
JsGreater(a, b) ==
  IF IsNaN(a) \/ IsNaN(b) THEN FALSE
  ELSE IF ~IsFinite(a) THEN ~a.neg /\ a # b
  ELSE IF ~IsFinite(b) THEN b.neg
  ELSE IF a.neg # b.neg THEN b.neg
  ELSE IF a.neg THEN BigLess(a.mag, b.mag) ELSE BigLess(b.mag, a.mag)

\* The characters of the query strings the model supplies (TLA+ strings are
\* atomic for TLC, so the spelling is tabulated; parseInt works on it).  A
\* character without an escape of its own is written by its code point.
HugeTtl == "10000000000000000000000000000000000000000000000000000000000000000000000000000000000000000000000000000000000000000000000000000000000000000000000000000000000000000000000000000000000000000000000000000000000000000000000000000000000000000000000000000000000000000000000000000000000000000000000000000000000000000000000000000000000000000000000000000000000000000000000000000000000000000000000000000000000000000"
Chars(s) ==
  CASE s = ""      -> <<>>
    [] s = "abc"   -> <<"a", "b", "c">>
    [] s = "0"     -> <<"0">>
    [] s = "-5"    -> <<"-", "5">>
    [] s = "120"   -> <<"1", "2", "0">>
    [] s = "\t120" -> <<"\t", "1", "2", "0">>
    [] s = "9007199254740993" ->
         <<"9", "0", "0", "7", "1", "9", "9", "2", "5", "4", "7", "4", "0", "9",
           "9", "3">>
    [] s = HugeTtl -> [i \in 1..401 |-> IF i = 1 THEN "1" ELSE "0"]

Digits == <<"0", "1", "2", "3", "4", "5", "6", "7", "8", "9">>
IsDigit(c) == \E d \in 1..10 : Digits[d] = c
DigitValue(c) == (CHOOSE d \in 1..10 : Digits[d] = c) - 1

\* the characters parseInt skips before the number: StrWhiteSpaceChar, that
\* is WhiteSpace (TAB, VT, FF, SP, NBSP, ZWNBSP, the space separators) and
\* LineTerminator (LF, CR, LS, PS)
StrWhiteSpaceChar ==
  { "\t", "U+000B", "\f", " ", "U+00A0", "U+FEFF",
    "U+1680", "U+2000", "U+2001", "U+2002", "U+2003", "U+2004", "U+2005",
    "U+2006", "U+2007", "U+2008", "U+2009", "U+200A", "U+202F", "U+205F",
    "U+3000",
    "\n", "\r", "U+2028", "U+2029" }

RECURSIVE TrimStart(_)
TrimStart(cs) ==
  IF cs # <<>> /\ Head(cs) \in StrWhiteSpaceChar THEN TrimStart(Tail(cs)) ELSE cs

\* the length of the longest prefix of decimal digits of cs
DigitRunLength(cs) ==
  LET stops == {i \in 1..Len(cs) : ~IsDigit(cs[i])}
  IN IF stops = {} THEN Len(cs)
     ELSE (CHOOSE i \in stops : \A h \in stops : i <= h) - 1

\* the value of at most DigitsPerStep decimal digits
DigitsPerStep == 4
RECURSIVE SmallValue(_)
SmallValue(ds) ==
  IF ds = <<>> THEN 0
  ELSE SmallValue(SubSeq(ds, 1, Len(ds) - 1)) * 10 + DigitValue(ds[Len(ds)])

\* 10^k in limbs, by halves
RECURSIVE BigPow10(_)
BigPow10(k) ==
  IF k <= DigitsPerStep THEN BigOf(10 ^ k)
  ELSE BigMul(BigPow10(k \div 2), BigPow10(k - k \div 2))

\* the exact value (in limbs) of a run of decimal digits, by halves: the left
\* half counts 10^(length of the right half) times
RECURSIVE DigitRunValue(_)
DigitRunValue(ds) ==
  IF Len(ds) <= DigitsPerStep THEN BigOf(SmallValue(ds))
  ELSE LET h == Len(ds) \div 2
       IN BigAdd(BigMul(DigitRunValue(SubSeq(ds, 1, Len(ds) - h)), BigPow10(h)),
                 DigitRunValue(SubSeq(ds, Len(ds) - h + 1, Len(ds))), 0)

\* parseInt on the characters cs, radix 10: skip leading white space, read an
\* optional sign, then the longest run of decimal digits; NaN when there is no
\* digit, else the double nearest to the signed value of the run
ParseIntChars(cs) ==
  LET t == TrimStart(cs)
      neg == t # <<>> /\ Head(t) = "-"
      body == IF t # <<>> /\ Head(t) \in {"-", "+"} THEN Tail(t) ELSE t
      n == DigitRunLength(body)
  IN IF n = 0 THEN NaN ELSE ToDouble(neg, DigitRunValue(SubSeq(body, 1, n)))

\* parseInt(s, 10) for each spelling the model supplies
Spellings == {"", "abc", "0", "-5", "120", "\t120", "9007199254740993", HugeTtl}
ParseIntOf == [s \in Spellings |-> ParseIntChars(Chars(s))]
parseInt(s) == ParseIntOf[s]

\* Math.round in place of Math.floor
RoundSeconds(ms) == (ms + 500) \div 1000

\* Math.floor(ms / 1000) for a non-negative clock reading
FloorSeconds(ms) == ms \div 1000

-----------------------------------------------------------------------------
(* The external token builders *)

\* The call RtcTokenBuilder.buildTokenWithUid / buildTokenWithAccount /
\* RtmTokenBuilder.buildToken makes visible: entry point and arguments
SignerCall(fn, args) == [fn |-> fn, args |-> args]

\* The opaque token string a builder returns for a call
Token(call) == [signed |-> call]

\* What a handler leaves behind once its builder calls have run: the k-th call
\* raising (k = 0: none raises) abandons the handler after that call and the
\* framework answers 500; otherwise every call is made and the body is sent
Finish(attempted, k, body) ==
  IF k \in 1..Len(attempted)
    THEN [resp |-> [status |-> 500, body |-> [exception |-> attempted[k].fn]],
          calls |-> SubSeq(attempted, 1, k)]
    ELSE [resp |-> [status |-> 200, body |-> body], calls |-> attempted]

\* return resp.status(400).json({ error: msg }) before any builder call
Reject(msg) == [resp |-> [status |-> 400, body |-> [error |-> msg]], calls |-> <<>>]

-----------------------------------------------------------------------------
(* src/index.js *)

\* a role chain whose else branch falls back to the subscriber role
RtcRoleOfLenient(rawRole) ==
  IF rawRole = "publisher" THEN "RtcRole.PUBLISHER" ELSE "RtcRole.SUBSCRIBER"

\* the role chain: RtcRole member for 'publisher' / 'audience', undefined for
\* the else branch that answers 'role is incorrect'
RtcRoleOf(rawRole) ==
  IF rawRole = "publisher" THEN "RtcRole.PUBLISHER"
  ELSE IF rawRole = "audience" THEN "RtcRole.SUBSCRIBER"
  ELSE Undefined

\* the literal the handlers fall back to when no expiry is given
DefaultExpireTime == 3600

\* let expireTime = req.query.expiry; 3600 when falsy, else parseInt(.., 10)
ExpireTime(expiry) ==
  IF Falsy(expiry) \/ expiry = "" THEN Num(DefaultExpireTime) ELSE parseInt(expiry)

\* currentTime = Math.floor(Date.now() / 1000)
CurrentTime(t) == Num(FloorSeconds(t))

\* privilegeExpireTime = currentTime + expireTime
PrivilegeExpireTime(t, expiry) == JsAdd(CurrentTime(t), ExpireTime(expiry))

\* a tokentype chain with the two builders exchanged
RtcBuilderOfSwapped(tokentype) ==
  IF tokentype = "userAccount" THEN "RtcTokenBuilder.buildTokenWithUid"
  ELSE IF tokentype = "uid" THEN "RtcTokenBuilder.buildTokenWithAccount"
  ELSE Undefined

\* the tokentype chain: the builder entry point, undefined for the else branch
\* that answers 'token type is invalid'
RtcBuilderOf(tokentype) ==
  IF tokentype = "userAccount" THEN "RtcTokenBuilder.buildTokenWithAccount"
  ELSE IF tokentype = "uid" THEN "RtcTokenBuilder.buildTokenWithUid"
  ELSE Undefined

generateRTCToken(r, t, appId, cert, k) ==
  LET channelName == r.params.channel
      uid == r.params.uid
      role == RtcRoleOf(r.params.role)
      privilegeExpireTime == PrivilegeExpireTime(t, r.query.expiry)
      builder == RtcBuilderOf(r.params.tokentype)
      call == SignerCall(builder,
                <<appId, cert, channelName, uid, role, privilegeExpireTime>>)
  IN IF Falsy(channelName) THEN Reject("channel is required")
     ELSE IF Falsy(uid) \/ uid = "" THEN Reject("uid is required")
     ELSE IF role = Undefined THEN Reject("role is incorrect")
     ELSE IF builder = Undefined THEN Reject("token type is invalid")
     ELSE Finish(<<call>>, k, [rtcToken |-> Token(call)])

\* a messaging handler that carries over the role chain of the media handler
generateRTMTokenChecksRole(r, t, appId, cert, k) ==
  LET uid == r.params.uid
      privilegeExpireTime == PrivilegeExpireTime(t, r.query.expiry)
      call == SignerCall("RtmTokenBuilder.buildToken",
                <<appId, cert, uid, "RtmRole.Rtm_User", privilegeExpireTime>>)
  IN IF Falsy(uid) \/ uid = "" THEN Reject("uid is required")
     ELSE IF RtcRoleOf(r.params.role) = Undefined THEN Reject("role is incorrect")
     ELSE Finish(<<call>>, k, [rtmToken |-> Token(call)])

generateRTMToken(r, t, appId, cert, k) ==
  LET uid == r.params.uid
      role == "RtmRole.Rtm_User"
      privilegeExpireTime == PrivilegeExpireTime(t, r.query.expiry)
      call == SignerCall("RtmTokenBuilder.buildToken",
                <<appId, cert, uid, role, privilegeExpireTime>>)
  IN IF Falsy(uid) \/ uid = "" THEN Reject("uid is required")
     ELSE Finish(<<call>>, k, [rtmToken |-> Token(call)])

\* a combined handler that builds the RTC token before it looks at the role
generateRTETokenSignsEarly(r, t, appId, cert, k) ==
  LET channelName == r.params.channel
      uid == r.params.uid
      role == RtcRoleOf(r.params.role)
      privilegeExpireTime == PrivilegeExpireTime(t, r.query.expiry)
      rtcCall == SignerCall("RtcTokenBuilder.buildTokenWithUid",
                   <<appId, cert, channelName, uid, role, privilegeExpireTime>>)
      rtmCall == SignerCall("RtmTokenBuilder.buildToken",
                   <<appId, cert, uid, role, privilegeExpireTime>>)
  IN IF Falsy(channelName) THEN Reject("channel is required")
     ELSE IF Falsy(uid) \/ uid = "" THEN Reject("uid is required")
     ELSE IF role = Undefined
       THEN [resp |-> Reject("role is incorrect").resp, calls |-> <<rtcCall>>]
     ELSE Finish(<<rtcCall, rtmCall>>, k,
                 [rtcToken |-> Token(rtcCall), rtmToken |-> Token(rtmCall)])

generateRTEToken(r, t, appId, cert, k) ==
  LET channelName == r.params.channel
      uid == r.params.uid
      role == RtcRoleOf(r.params.role)
      privilegeExpireTime == PrivilegeExpireTime(t, r.query.expiry)
      rtcCall == SignerCall("RtcTokenBuilder.buildTokenWithUid",
                   <<appId, cert, channelName, uid, role, privilegeExpireTime>>)
      rtmCall == SignerCall("RtmTokenBuilder.buildToken",
                   <<appId, cert, uid, role, privilegeExpireTime>>)
  IN IF Falsy(channelName) THEN Reject("channel is required")
     ELSE IF Falsy(uid) \/ uid = "" THEN Reject("uid is required")
     ELSE IF role = Undefined THEN Reject("role is incorrect")
     ELSE Finish(<<rtcCall, rtmCall>>, k,
                 [rtcToken |-> Token(rtcCall), rtmToken |-> Token(rtmCall)])

-----------------------------------------------------------------------------
(* src/unnamed/part_000: app.get('/rtcToken', ...) *)

rtcTokenHandler(r, t, appId, cert, k) ==
  LET channelName == r.query.channelName
      uid == IF Falsy(r.query.uid) THEN Num(0) ELSE r.query.uid
      role == "RtcRole.PUBLISHER"
      expireTime == Num(DefaultExpireTime)
      privilegeExpiredTs == JsAdd(CurrentTime(t), expireTime)
      call == SignerCall("RtcTokenBuilder.buildTokenWithUid",
                <<appId, cert, channelName, uid, role, privilegeExpiredTs>>)
  IN IF Falsy(channelName) THEN Reject("channelName is required")
     ELSE IF Falsy(appId) \/ Falsy(cert)
       THEN [resp |-> [status |-> 500,
                       body |-> [error |-> "APP_ID or APP_CERTIFICATE missing"]],
             calls |-> <<>>]
     ELSE Finish(<<call>>, k, [token |-> Token(call)])

-----------------------------------------------------------------------------
(* Requests *)

\* the clock readings requests see: the last millisecond of one second and the
\* first of the next, up to second MaxClockSec
MaxClockSec == 2
Clock == {MaxClockSec * 1000 - 1, MaxClockSec * 1000}

\* A route parameter is a non-empty segment of the path: the patterns
\* '/rtc/:channel/:role/:tokentype/:uid', '/rtm/:uid/' and
\* '/rte/:channel/:role/:tokentype/:uid' match no path with an empty or
\* missing segment.  A query field may be missing or empty.
Channels   == {"room1"}
Uids       == {"42"}
Roles      == {"publisher", "audience", "moderator"}
TokenTypes == {"uid", "userAccount", "rtc"}
Expiries   == {Undefined, "", "abc", "0", "-5", "120", "\t120",
               "9007199254740993", HugeTtl}
QueryChannelNames == {Undefined, "", "room1"}
QueryUids  == {Undefined, "", "42"}
QueryRoles == {Undefined, "moderator"}

NoParams == [channel |-> Undefined, role |-> Undefined,
             tokentype |-> Undefined, uid |-> Undefined]
NoQuery  == [expiry |-> Undefined, channelName |-> Undefined, uid |-> Undefined,
             role |-> Undefined]

\* GET /rtc/:channel/:role/:tokentype/:uid?expiry=
RtcRequests ==
  { [params |-> [channel |-> c, role |-> ro, tokentype |-> tt, uid |-> u],
     query  |-> [NoQuery EXCEPT !.expiry = e]] :
      c \in Channels, ro \in Roles, tt \in TokenTypes, u \in Uids, e \in Expiries }

\* GET /rtm/:uid/?expiry=&role= ; the route has no role or channel parameter
RtmRequests ==
  { [params |-> [NoParams EXCEPT !.uid = u],
     query  |-> [NoQuery EXCEPT !.expiry = e, !.role = ro]] :
      u \in Uids, ro \in QueryRoles, e \in Expiries }

\* GET /rte/:channel/:role/:tokentype/:uid?expiry=
RteRequests ==
  { [params |-> [channel |-> c, role |-> ro, tokentype |-> tt, uid |-> u],
     query  |-> [NoQuery EXCEPT !.expiry = e]] :
      c \in Channels, ro \in Roles, tt \in {"uid"}, u \in Uids, e \in Expiries }

\* GET /rtcToken?channelName=&uid=
RtcTokenRequests ==
  { [params |-> NoParams,
     query  |-> [NoQuery EXCEPT !.channelName = c, !.uid = u]] :
      c \in QueryChannelNames, u \in QueryUids }

-----------------------------------------------------------------------------
(* The server *)

\* process.env entries: configured or not
Environments ==
  [APP_ID : {Undefined, "appid"}, APP_CERTIFICATE : {Undefined, "cert"}]

Init ==
  /\ env \in Environments
  /\ APP_ID = env.APP_ID
  /\ APP_CERTIFICATE = env.APP_CERTIFICATE
  /\ handler = "none"
  /\ req = [params |-> NoParams, query |-> NoQuery]
  /\ now = 0
  /\ raiseAt = 0
  /\ resp = [status |-> 0, body |-> [error |-> "none"]]
  /\ calls = <<>>
  /\ faulted = FALSE

\* the last response came from a builder call that raised
Raised(rp) == rp.status = 500 /\ DOMAIN rp.body = {"exception"}

\* a variant of Serve in which a handler keeps the uid of the request it served
\* in the module-level APP_ID
ServeLeakingGlobal(h, r, t, k, out) ==
  /\ handler' = h
  /\ req' = r
  /\ now' = t
  /\ raiseAt' = k
  /\ resp' = out.resp
  /\ calls' = out.calls
  /\ faulted' = (faulted \/ Raised(resp))
  /\ APP_ID' = IF Falsy(r.params.uid) THEN APP_ID ELSE r.params.uid
  /\ UNCHANGED <<env, APP_CERTIFICATE>>

\* one request served from start to end; the handlers assign no global
Serve(h, r, t, k, out) ==
  /\ handler' = h
  /\ req' = r
  /\ now' = t
  /\ raiseAt' = k
  /\ resp' = out.resp
  /\ calls' = out.calls
  /\ faulted' = (faulted \/ Raised(resp))
  /\ UNCHANGED <<env, APP_ID, APP_CERTIFICATE>>

RtcRequest(r, t, k) ==
  Serve("generateRTCToken", r, t, k, generateRTCToken(r, t, APP_ID, APP_CERTIFICATE, k))

RtmRequest(r, t, k) ==
  Serve("generateRTMToken", r, t, k, generateRTMToken(r, t, APP_ID, APP_CERTIFICATE, k))

RteRequest(r, t, k) ==
  Serve("generateRTEToken", r, t, k, generateRTEToken(r, t, APP_ID, APP_CERTIFICATE, k))

RtcTokenRequest(r, t, k) ==
  Serve("rtcToken", r, t, k, rtcTokenHandler(r, t, APP_ID, APP_CERTIFICATE, k))

\* the builders return for every call (their contract for well-formed input)
Next ==
  \/ \E r \in RtcRequests, t \in Clock : RtcRequest(r, t, 0)
  \/ \E r \in RtmRequests, t \in Clock : RtmRequest(r, t, 0)
  \/ \E r \in RteRequests, t \in Clock : RteRequest(r, t, 0)
  \/ \E r \in RtcTokenRequests, t \in Clock : RtcTokenRequest(r, t, 0)

Spec == Init /\ [][Next]_vars

\* any builder call may raise instead of returning
NextRaise ==
  \/ \E r \in RtcRequests, t \in Clock, k \in 0..1 : RtcRequest(r, t, k)
  \/ \E r \in RtmRequests, t \in Clock, k \in 0..1 : RtmRequest(r, t, k)
  \/ \E r \in RteRequests, t \in Clock, k \in 0..2 : RteRequest(r, t, k)
  \/ \E r \in RtcTokenRequests, t \in Clock, k \in 0..1 : RtcTokenRequest(r, t, k)

SpecRaise == Init /\ [][NextRaise]_vars

-----------------------------------------------------------------------------
(* Vocabulary of the properties *)

TokenHandlers == {"generateRTCToken", "generateRTMToken", "generateRTEToken"}
MediaRoles == {"publisher", "audience"}

\* the error kind a response reports ("none" for a success)
ErrorKind(rp) ==
  IF rp.status = 200 THEN "none"
  ELSE IF Raised(rp) THEN "SignerFailure"
  ELSE IF rp.body.error \in {"channel is required", "channelName is required"}
    THEN "MissingChannel"
  ELSE IF rp.body.error = "uid is required" THEN "MissingSubject"
  ELSE IF rp.body.error = "role is incorrect" THEN "InvalidRole"
  ELSE IF rp.body.error = "token type is invalid" THEN "InvalidTokenType"
  ELSE IF rp.body.error = "APP_ID or APP_CERTIFICATE missing" THEN "MissingCredential"
  ELSE "other"

ClientErrors == {"MissingChannel", "MissingSubject", "InvalidRole", "InvalidTokenType"}

\* the entry points called, in order
Fns(cs) == [i \in DOMAIN cs |-> cs[i].fn]
\* the last two arguments of every builder call are the role and the expiry
RoleArg(call) == call.args[Len(call.args) - 1]
ExpireArg(call) == call.args[Len(call.args)]

\* the whole second the last request's clock reading falls in
IssuedAt == CHOOSE sec \in 0..MaxClockSec : sec * 1000 <= now /\ now < (sec + 1) * 1000

\* both credential entries were present in the environment
Configured == env.APP_ID # Undefined /\ env.APP_CERTIFICATE # Undefined

ChannelPresent == ~(req.params.channel \in {Undefined, ""})
SubjectPresent == ~(req.params.uid \in {Undefined, ""})

-----------------------------------------------------------------------------
(* Properties *)

\* C1: in a media request with valid channel, subject and role, tokentype
\* alone picks the builder: "uid" calls buildTokenWithUid once and nothing
\* else, "userAccount" calls buildTokenWithAccount once and nothing else, any
\* other tokentype is answered InvalidTokenType with no builder called.
C1_TokenTypeSelectsSigner ==
  (handler = "generateRTCToken" /\ ChannelPresent /\ SubjectPresent
     /\ req.params.role \in MediaRoles) =>
    /\ req.params.tokentype = "uid" =>
         Fns(calls) = <<"RtcTokenBuilder.buildTokenWithUid">> /\ resp.status = 200
    /\ req.params.tokentype = "userAccount" =>
         Fns(calls) = <<"RtcTokenBuilder.buildTokenWithAccount">> /\ resp.status = 200
    /\ req.params.tokentype \notin {"uid", "userAccount"} =>
         calls = <<>> /\ ErrorKind(resp) = "InvalidTokenType"

C1_Witness ==
  /\ handler = "generateRTCToken"
  /\ req.params.channel = "room1" /\ req.params.uid = "42"
  /\ req.params.role = "audience" /\ req.params.tokentype = "userAccount"
  /\ Fns(calls) = <<"RtcTokenBuilder.buildTokenWithAccount">>

\* C2: every media request whose raw role is neither "publisher" nor
\* "audience" is answered InvalidRole with no builder called, and the two
\* recognised roles reach the builder as PUBLISHER and SUBSCRIBER.  (The route
\* delivers a non-empty channel and uid, so the checks that precede the role
\* chain never answer first.)
C2_BadRoleIsInvalidRole ==
  handler = "generateRTCToken" =>
    /\ req.params.role \notin MediaRoles =>
         ErrorKind(resp) = "InvalidRole" /\ calls = <<>>
    /\ \A i \in DOMAIN calls :
         /\ req.params.role = "publisher" => RoleArg(calls[i]) = "RtcRole.PUBLISHER"
         /\ req.params.role = "audience" => RoleArg(calls[i]) = "RtcRole.SUBSCRIBER"

C2_Witness ==
  /\ handler = "generateRTCToken"
  /\ req.params.channel = "room1" /\ req.params.uid = "42"
  /\ req.params.role = "moderator"
  /\ ErrorKind(resp) = "InvalidRole" /\ calls = <<>>

\* C3 (credential configured): for a ttl that is omitted, empty or not parseable as an integer, every
\* builder call of the media, messaging and combined handlers gets the expiry
\* issuedAt + 3600.
C3_DefaultTtl ==
  (Configured /\ handler \in TokenHandlers
     /\ (req.query.expiry \in {Undefined, ""} \/ IsNaN(parseInt(req.query.expiry)))) =>
    \A i \in DOMAIN calls : ExpireArg(calls[i]) = Num(IssuedAt + 3600)

\* C4: with the app id or the app certificate not configured, no request
\* reaches a builder, and a request is answered with an error: MissingCredential
\* unless one of its own inputs is rejected.
C4_MissingCredentialReported ==
  (handler # "none" /\ (env.APP_ID = Undefined \/ env.APP_CERTIFICATE = Undefined)) =>
    /\ calls = <<>>
    /\ ErrorKind(resp) \in ClientErrors \cup {"MissingCredential"}

\* C5: the combined handler calls no builder and returns no token when the
\* channel or the subject is absent or empty or the role is not recognised;
\* otherwise it calls buildTokenWithUid and then the messaging builder and
\* returns both tokens.
C5_CombinedAtomic ==
  handler = "generateRTEToken" =>
    IF ChannelPresent /\ SubjectPresent /\ req.params.role \in MediaRoles
      THEN /\ Fns(calls) = <<"RtcTokenBuilder.buildTokenWithUid",
                             "RtmTokenBuilder.buildToken">>
           /\ resp.status = 200
           /\ DOMAIN resp.body = {"rtcToken", "rtmToken"}
      ELSE /\ calls = <<>>
           /\ resp.status = 400
           /\ DOMAIN resp.body = {"error"}
           /\ ErrorKind(resp) \in {"MissingChannel", "MissingSubject", "InvalidRole"}

C5_Witness ==
  /\ handler = "generateRTEToken"
  /\ req.params.channel = "room1" /\ req.params.uid = "42"
  /\ req.params.role = "moderator"
  /\ calls = <<>> /\ resp.status = 400

\* C6: the messaging handler fails exactly when the subject is absent or
\* empty, then with MissingSubject and no builder call; for any other request,
\* whatever its role or channel, it calls the messaging builder once with the
\* role Rtm_User and succeeds.
C6_MessagingIgnoresRole ==
  handler = "generateRTMToken" =>
    IF SubjectPresent
      THEN /\ resp.status = 200
           /\ Fns(calls) = <<"RtmTokenBuilder.buildToken">>
           /\ RoleArg(calls[1]) = "RtmRole.Rtm_User"
      ELSE ErrorKind(resp) = "MissingSubject" /\ calls = <<>>

C6_Witness ==
  /\ handler = "generateRTMToken"
  /\ req.params.uid = "42" /\ req.query.role = "moderator"
  /\ req.params.channel = Undefined
  /\ resp.status = 200 /\ Len(calls) = 1
  /\ RoleArg(calls[1]) = "RtmRole.Rtm_User"

\* the ttl strings that spell a positive integer, with the exact integer
\* each spells (in limbs)
PositiveTtl == {"120", "9007199254740993", HugeTtl}
TtlValue(t) ==
  CASE t = "120" -> <<120>>
    [] t = "9007199254740993" -> <<1, 0, 0, 0, 0, 8>>
    [] t = HugeTtl ->
      <<
         0, 0, 0, 0, 0, 0, 0, 0, 0, 0, 0, 0, 0, 0, 0, 0, 0, 0, 0, 0, 0, 0, 0,
         0, 0, 0, 0, 0, 0, 0, 0, 0, 0, 0, 0, 0, 0, 0, 0, 0, 449, 1002, 994,
         221, 36, 46, 671, 203, 987, 250, 99, 649, 723, 290, 314, 262, 682,
         613, 228, 898, 89, 116, 798, 649, 860, 49, 542, 79, 72, 287, 219,
         475, 231, 680, 411, 357, 718, 141, 996, 159, 420, 881, 1016, 210,
         902, 43, 990, 435, 207, 187, 523, 282, 665, 243, 389, 394, 398, 692,
         230, 368, 526, 4, 1013, 734, 464, 57, 3, 718, 941, 43, 21, 559, 267,
         326, 255, 150, 734, 352, 596, 731, 909, 496, 23, 1007, 806, 819,
         177, 975, 831, 101, 1017, 945, 436 >>

\* issuedAt + t as an exact integer, for the ttl t of the last request
ExactExpiry == BigAdd(BigOf(IssuedAt), TtlValue(req.query.expiry), 0)

\* C7 as stated: for a ttl that spells an integer t > 0, every builder call of
\* the media, messaging and combined handlers gets the expiry issuedAt + t
\* exactly, issuedAt being the clock reading cut to whole seconds; the two
\* calls of the combined handler get the same expiry.
C7_ExactExpiryAnyTtl ==
  (Configured /\ handler \in TokenHandlers /\ req.query.expiry \in PositiveTtl) =>
    \A i \in DOMAIN calls :
      ExpireArg(calls[i]) = [type |-> "number", neg |-> FALSE, mag |-> ExactExpiry]

\* C7 amended: for a ttl that spells an integer t > 0 with issuedAt + t below
\* 2^53, every builder call of the media, messaging and combined handlers gets
\* the expiry issuedAt + t exactly, issuedAt being the clock reading cut to
\* whole seconds; the two calls of the combined handler get the same expiry.
C7_ExactExpiry ==
  (handler \in TokenHandlers /\ req.query.expiry \in PositiveTtl
     /\ BitLength(ExactExpiry) <= SignificandBits) =>
    \A i \in DOMAIN calls :
      ExpireArg(calls[i]) = [type |-> "number", neg |-> FALSE, mag |-> ExactExpiry]

C7_Witness ==
  /\ handler = "generateRTEToken" /\ req.query.expiry = "120"
  /\ now = MaxClockSec * 1000 - 1
  /\ Len(calls) = 2
  /\ ExpireArg(calls[1]) = Num(MaxClockSec - 1 + 120)
  /\ ExpireArg(calls[2]) = Num(MaxClockSec - 1 + 120)

\* C8 (credential configured, raw role "audience"): in the combined handler
\* the messaging builder gets the role Rtm_User, not the media role, and
\* buildTokenWithUid gets the resolved media role.
C8_CombinedMessagingRole ==
  (Configured /\ handler = "generateRTEToken" /\ Len(calls) = 2
     /\ req.params.role = "audience") =>
    /\ RoleArg(calls[1]) = "RtcRole.SUBSCRIBER"
    /\ RoleArg(calls[2]) = "RtmRole.Rtm_User"
    /\ RoleArg(calls[2]) # RoleArg(calls[1])

\* C9 (credential configured): every builder call whose expiry is a number carries an expiry strictly
\* after issuedAt.
C9_PositiveWindow ==
  (Configured /\ handler \in TokenHandlers) =>
    \A i \in DOMAIN calls :
      ~IsNaN(ExpireArg(calls[i])) => JsGreater(ExpireArg(calls[i]), Num(IssuedAt))

\* the outcome of request r, clock reading t, raising call k in a process that
\* has served nothing since it loaded its environment
RunAlone(h, r, t, k) ==
  CASE h = "generateRTCToken" ->
         generateRTCToken(r, t, env.APP_ID, env.APP_CERTIFICATE, k)
    [] h = "generateRTMToken" ->
         generateRTMToken(r, t, env.APP_ID, env.APP_CERTIFICATE, k)
    [] h = "generateRTEToken" ->
         generateRTEToken(r, t, env.APP_ID, env.APP_CERTIFICATE, k)
    [] h = "rtcToken" ->
         rtcTokenHandler(r, t, env.APP_ID, env.APP_CERTIFICATE, k)

\* C10: whatever requests were served before, failed or raised before, the
\* credential is the one loaded at start and the last request's response and
\* builder calls are those of the same request served alone.
C10_Stateless ==
  /\ APP_ID = env.APP_ID
  /\ APP_CERTIFICATE = env.APP_CERTIFICATE
  /\ handler # "none" =>
       /\ resp = RunAlone(handler, req, now, raiseAt).resp
       /\ calls = RunAlone(handler, req, now, raiseAt).calls

C10_Witness ==
  /\ faulted
  /\ handler = "generateRTEToken"
  /\ resp.status = 200 /\ Len(calls) = 2

====
